---- MODULE Spec2Model ----
(***************************************************************************)
(* Session and response-aggregation engine of the live-quiz server         *)
(* (src/server.py).  The module-level globals quiz_sessions and            *)
(* current_session_id, the session objects they refer to and the Firestore *)
(* "responses" collection are the state.  Every Flask handler is a sequence *)
(* of steps, one step per access to shared state; each step is an operator *)
(* from the state and the handler's locals to the next state and locals.   *)
(* Spec interleaves the steps of the worker threads, as a threaded WSGI    *)
(* server does (the code takes no lock anywhere).  SpecSeq and SpecTimed   *)
(* run every handler to completion before the next request is served:     *)
(* SpecSeq within one clock instant, SpecTimed while time passes.          *)
(***************************************************************************)
EXTENDS Integers, Sequences, FiniteSets, Bags, TLC

\* ------------------------------------------------------------------ bounds
\* Worker threads serving requests.
Procs == {1, 2}
\* Clock resolution of the model: datetime.now() instants per second.
TicksPerSecond == 2
\* The clock is read at time 0, 24 hours later, and at up to this many
\* instants after that.
MaxSkew == 1
\* Responses accepted into a ledger in one run: once this many are in, no
\* further answer arrives.
MaxSubmits == 2
\* The same in a run in which time passes (SpecTimed).
MaxTimedSubmits == 1
\* Requests served in one run of the interleaved specification.
MaxCalls == 3
\* Documents the collection holds when the server comes up (SpecStream).
MaxStored == 2
\* Instants by which the oldest of them precedes the start of the server.
MaxAge == 2
\* Responses accepted in a run over repeated sessions of one set (SpecRepeat).
MaxRepeatSubmits == 3

\* --------------------------------------------------------- program constants
\* cleanup_expired_sessions: "if session_age.total_seconds() > 86400".
TTLSeconds == 86400
TTLTicks == TTLSeconds * TicksPerSecond

\* The four option keys get_questions gives every question.
Options == {"A", "B", "C", "D"}
\* The order in which a dict built as {"A": .., "B": .., "C": .., "D": ..} iterates.
OptionOrder == <<"A", "B", "C", "D">>

\* ------------------------------------------------------------------ inputs
Students == {"alice", "bob"}
\* Option parameters after strip().upper(): valid letters, a letter that is
\* no option, and the empty string (parameter missing).
InputOptions == {"A", "B", "E", ""}
\* Tags a reader sends as tag_id.
Tags == {"t1", "t2"}
\* Question sets in Firestore: s1 holds two questions, s0 none.
SetIds == {"s0", "s1"}

VARIABLES
    quiz_sessions,       \* dict: session id -> reference to a session object
    current_session_id,  \* global: a session id, or <<>> for None
    heap,                \* session objects by reference
    responses,           \* Firestore collection "responses": a bag of documents
    student_docs,        \* Firestore collection "students", in order of creation
    now,                 \* wall clock, in instants
    observed,            \* the view the observer last received, <<>> before its first
    submitted,           \* responses appended to a ledger so far
    calls,               \* requests served so far (interleaved specification)
    pc,                  \* per thread: the step it is at
    loc                  \* per thread: the handler's local variables

vars == <<quiz_sessions, current_session_id, heap, responses, student_docs, now,
          observed, submitted, calls, pc, loc>>

None == <<>>

\* The shared state a step reads and writes.
State ==
    [qs |-> quiz_sessions, cur |-> current_session_id, heap |-> heap,
     responses |-> responses, students |-> student_docs, now |-> now,
     observed |-> observed, submitted |-> submitted]

\* --------------------------------------------------------------- helpers
\* get_questions(set_id): the question documents of a set, ordered by idx,
\* each with fresh, empty response buckets.
EmptyResponses == [o \in Options |-> <<>>]

QuestionDocs(set_id) ==
    IF set_id = "s1"
    THEN << [id |-> "q1", correct |-> "A"], [id |-> "q2", correct |-> "B"] >>
    ELSE << >>

get_questions(set_id) ==
    [i \in 1..Len(QuestionDocs(set_id)) |->
        [id |-> QuestionDocs(set_id)[i].id,
         correct |-> QuestionDocs(set_id)[i].correct,
         responses |-> EmptyResponses]]

\* strftime('%Y%m%d_%H%M%S'): the instant cut to its second.
SecondOf(t) == t \div TicksPerSecond

\* Line 454 with the id made of the set id alone.
SessionIdFor_untimed(set_id, t) == <<set_id, 0>>

\* f"quiz_{set_id}_{datetime.now().strftime(...)}"
SessionIdFor(set_id, t) == <<set_id, SecondOf(t)>>

\* create_quiz_session(set_id, questions); student_scores is a defaultdict(int),
\* modelled by the function on the keys it holds.
create_quiz_session(set_id, questions, t) ==
    [active_quiz |-> questions,
     current_question_index |-> 0,
     student_scores |-> << >>,
     current_set_id |-> set_id,
     created_at |-> t]

InitLoc ==
    [op |-> "none", set_id |-> "", session_id |-> None, student |-> "",
     option |-> "", obj |-> 0, qi |-> 0, tmp |-> 0, current_time |-> 0,
     visited |-> {}, iter_len |-> 0, expired |-> << >>, correct |-> FALSE,
     result |-> "", count |-> 0, view |-> << >>]

\* Objects still referenced: by the registry or by a running handler.
Referenced(qs, l) ==
    {qs[k] : k \in DOMAIN qs} \cup {l[p].obj : p \in Procs}

\* A new object gets a reference no live object has.
NewRef(h) == CHOOSE o \in 1..(Cardinality(DOMAIN h) + 1) : o \notin DOMAIN h

\* Python frees an object nobody refers to.
Collect(h, qs, l) ==
    [o \in (DOMAIN h) \cap Referenced(qs, l) |-> h[o]]

\* A step's outcome: the shared state, the handler's next step and locals.
Goto(S, L, step) == [s |-> S, pc |-> step, loc |-> L]

\* The handler returns: what it answers stays, its working locals are dropped.
Finish(S, L, result) ==
    [s |-> S, pc |-> "done",
     loc |-> [InitLoc EXCEPT !.op = L.op, !.result = result, !.student = L.student,
                             !.option = L.option, !.correct = L.correct,
                             !.count = L.count, !.view = L.view]]

\* The guard without its second half: only "not current_session_id".
NoCurrentSession_unset(S) == S.cur = None

\* "not current_session_id or current_session_id not in quiz_sessions"
NoCurrentSession(S) == S.cur = None \/ S.cur \notin DOMAIN S.qs

\* session['student_scores'][student] of a defaultdict(int)
ScoreOf(session, student) ==
    IF student \in DOMAIN session.student_scores
    THEN session.student_scores[student] ELSE 0

SetScore(scores, student, v) ==
    [s \in (DOMAIN scores) \cup {student} |-> IF s = student THEN v ELSE scores[s]]

\* sum(question['responses'].values(), [])
AllResponses(question) ==
    question.responses["A"] \o question.responses["B"]
        \o question.responses["C"] \o question.responses["D"]

InList(x, list) == \E i \in 1..Len(list) : list[i] = x

\* ------------------------------------------------------------- start_quiz
\* start_quiz without lines 449-451: the id is made whatever get_questions gave.
start_quiz_begin_unchecked(S, set_id) ==
    Goto(S, [InitLoc EXCEPT !.op = "start_quiz", !.set_id = set_id,
                            !.session_id = SessionIdFor(set_id, S.now)],
         "start_create")

\* Lines 448-454: get_questions, the emptiness check and the session id.
start_quiz_begin(S, set_id) ==
    IF get_questions(set_id) = << >>
    THEN Finish(S, [InitLoc EXCEPT !.op = "start_quiz", !.set_id = set_id],
                "EmptyQuestionSet")
    ELSE Goto(S, [InitLoc EXCEPT !.op = "start_quiz", !.set_id = set_id,
                                 !.session_id = SessionIdFor(set_id, S.now)],
              "start_create")

\* Line 455 with the question objects of a registered session of the same set
\* used again where there is one, instead of those get_questions built.
start_quiz_create_shared(S, L) ==
    LET o == NewRef(S.heap)
        same == {k \in DOMAIN S.qs : S.heap[S.qs[k]].current_set_id = L.set_id}
        questions == IF same = {} THEN get_questions(L.set_id)
                     ELSE S.heap[S.qs[CHOOSE k \in same : TRUE]].active_quiz
    IN  Goto([S EXCEPT !.qs = [k \in (DOMAIN S.qs) \cup {L.session_id} |->
                                  IF k = L.session_id THEN o ELSE S.qs[k]],
                       !.heap = [x \in (DOMAIN S.heap) \cup {o} |->
                                  IF x = o
                                  THEN create_quiz_session(L.set_id, questions, S.now)
                                  ELSE S.heap[x]]],
             [L EXCEPT !.obj = o], "start_publish")

\* Line 455: quiz_sessions[session_id] = create_quiz_session(set_id, questions).
start_quiz_create(S, L) ==
    LET o == NewRef(S.heap)
    IN  Goto([S EXCEPT !.qs = [k \in (DOMAIN S.qs) \cup {L.session_id} |->
                                  IF k = L.session_id THEN o ELSE S.qs[k]],
                       !.heap = [x \in (DOMAIN S.heap) \cup {o} |->
                                  IF x = o
                                  THEN create_quiz_session(L.set_id, get_questions(L.set_id), S.now)
                                  ELSE S.heap[x]]],
             [L EXCEPT !.obj = o], "start_publish")

\* Line 456: current_session_id = session_id.
start_quiz_publish(S, L) ==
    Finish([S EXCEPT !.cur = L.session_id], L, "Started")

\* ---------------------------------------------------------- next_question
\* Line 499: the guard on the current session.
next_question_check(S) ==
    IF NoCurrentSession(S)
    THEN Finish(S, [InitLoc EXCEPT !.op = "next_question"], "NotFound")
    ELSE Goto(S, [InitLoc EXCEPT !.op = "next_question"], "next_fetch")

\* Line 505 with "<=" for "<".
BelowLast_inclusive(session) ==
    session.current_question_index <= Len(session.active_quiz) - 1

\* Line 505: the index may still be raised.
BelowLast(session) ==
    session.current_question_index < Len(session.active_quiz) - 1

\* Lines 502-505: session = quiz_sessions[current_session_id] (a KeyError when
\* the key has gone since the guard), and the comparison of the index.
next_question_fetch(S, L) ==
    IF S.cur \notin DOMAIN S.qs
    THEN Finish(S, L, "ServerError")
    ELSE LET o == S.qs[S.cur]
             M == [L EXCEPT !.session_id = S.cur, !.obj = o,
                            !.qi = S.heap[o].current_question_index]
         IN  IF BelowLast(S.heap[o])
             THEN Goto(S, M, "next_read")
             ELSE Finish(S, M, "Advanced")

\* Line 506, "+= 1": the load of the index ...
next_question_read(S, L) ==
    Goto(S, [L EXCEPT !.tmp = S.heap[L.obj].current_question_index], "next_write")

\* ... and the store of the incremented value.
next_question_write(S, L) ==
    Finish([S EXCEPT !.heap[L.obj].current_question_index = L.tmp + 1], L, "Advanced")

\* ------------------------------------------------------------ receive_data
\* record_response: one more document in the collection, stamped by the store.
record_response(S, set_id, question_id, student, option, is_correct) ==
    S.responses (+) SetToBag({[set_id |-> set_id, question_id |-> question_id,
                               student |-> student, answer |-> option,
                               is_correct |-> is_correct, timestamp |-> S.now]})

\* ------------------------------------------------------ student resolution
\* f"Student {next_num:02d}" for the numbers a run can reach.
AutoNames == <<"Student 01", "Student 02", "Student 03">>
FormatStudent(next_num) == AutoNames[next_num]

\* Lines 170-176: int(name.split(" ")[1]) of a name starting with "Student ";
\* 0 stands for a name that does not start so or does not parse.
StudentNumber(name) ==
    IF \E n \in 1..Len(AutoNames) : AutoNames[n] = name
    THEN CHOOSE n \in 1..Len(AutoNames) : AutoNames[n] = name
    ELSE 0

\* Lines 153-192: the stored name of the tag, or a new document named after
\* the number in the name of the most recently created student.
get_or_create_student(S, tag_id) ==
    LET existing_student == SelectSeq(S.students, LAMBDA d : d.tag_id = tag_id)
        latest == S.students[Len(S.students)]
        next_num == IF S.students # << >> /\ StudentNumber(latest.name) # 0
                    THEN StudentNumber(latest.name) + 1
                    ELSE 1
        student_name == FormatStudent(next_num)
    IN  IF existing_student # << >>
        THEN [s |-> S, name |-> existing_student[1].name]
        ELSE [s |-> [S EXCEPT !.students =
                         Append(@, [name |-> student_name, tag_id |-> tag_id])],
              name |-> student_name]

\* Lines 232-259: the name itself, with a document under a generated tag
\* ("manual_" and eight hex digits) when no student has the name yet.
create_student_from_name(S, student_name) ==
    IF \E n \in 1..Len(S.students) : S.students[n].name = student_name
    THEN [s |-> S, name |-> student_name]
    ELSE [s |-> [S EXCEPT !.students =
                     Append(@, [name |-> student_name, tag_id |-> "manual"])],
          name |-> student_name]

\* Lines 546-553: the option must be present, a session must be current.
receive_data_check(S, student, option) ==
    LET L == [InitLoc EXCEPT !.op = "receive_data", !.student = student, !.option = option]
    IN  IF option = ""
        THEN Finish(S, L, "MissingOption")
        ELSE IF NoCurrentSession(S)
        THEN Finish(S, L, "NotFound")
        ELSE Goto(S, L, "recv_fetch")

\* Lines 534-544: the student of the request, by tag when one is sent, by
\* name otherwise; then the checks of the request.
receive_data_resolve(S, tag_id, student_name, option) ==
    IF tag_id # ""
    THEN LET r == get_or_create_student(S, tag_id)
         IN  receive_data_check(r.s, r.name, option)
    ELSE IF student_name # ""
    THEN LET r == create_student_from_name(S, student_name)
         IN  receive_data_check(r.s, r.name, option)
    ELSE Finish(S, [InitLoc EXCEPT !.op = "receive_data"], "MissingStudent")

\* Lines 555-567: the session, its index and the question at that index.
receive_data_fetch(S, L) ==
    IF S.cur \notin DOMAIN S.qs
    THEN Finish(S, L, "ServerError")
    ELSE LET o == S.qs[S.cur]
             i == S.heap[o].current_question_index
             M == [L EXCEPT !.session_id = S.cur, !.obj = o, !.qi = i]
         IN  IF i < 0 \/ i >= Len(S.heap[o].active_quiz)
             THEN Finish(S, M, "InvalidIndex")
             ELSE Goto(S, M, "recv_dupcheck")

\* The question object the handler holds.
QuestionOf(S, L) == S.heap[L.obj].active_quiz[L.qi + 1]

\* Lines 575-590 with the duplicate check looking at the chosen bucket only.
receive_data_dupcheck_target_bucket(S, L) ==
    IF L.option \notin Options
    THEN Finish(S, L, "InvalidOption")
    ELSE IF InList(L.student, QuestionOf(S, L).responses[L.option])
    THEN Finish(S, L, "DuplicateStudent")
    ELSE Goto(S, L, "recv_append")

\* Lines 575-590 with the two checks in the other order.
receive_data_dupcheck_option_first(S, L) ==
    IF L.option \notin Options
    THEN Finish(S, L, "InvalidOption")
    ELSE IF InList(L.student, AllResponses(QuestionOf(S, L)))
    THEN Finish(S, L, "DuplicateStudent")
    ELSE Goto(S, L, "recv_append")

\* Lines 575-590 with a refused duplicate still written to the response log.
receive_data_dupcheck_logged(S, L) ==
    IF InList(L.student, AllResponses(QuestionOf(S, L)))
    THEN Finish([S EXCEPT !.responses =
                     record_response(S, S.heap[L.obj].current_set_id, QuestionOf(S, L).id,
                                     L.student, L.option, FALSE)],
                L, "DuplicateStudent")
    ELSE IF L.option \notin Options
    THEN Finish(S, L, "InvalidOption")
    ELSE Goto(S, L, "recv_append")

\* Lines 575-590: the duplicate check over all buckets, then the option check.
receive_data_dupcheck(S, L) ==
    IF InList(L.student, AllResponses(QuestionOf(S, L)))
    THEN Finish(S, L, "DuplicateStudent")
    ELSE IF L.option \notin Options
    THEN Finish(S, L, "InvalidOption")
    ELSE Goto(S, L, "recv_append")

\* Lines 593-594: the append and the correctness decision.
receive_data_append(S, L) ==
    LET correct == (L.option = QuestionOf(S, L).correct)
    IN  Goto([S EXCEPT !.heap[L.obj].active_quiz[L.qi + 1].responses[L.option] =
                            Append(@, L.student),
                       !.submitted = @ + 1],
             [L EXCEPT !.correct = correct],
             IF correct THEN "recv_score_read" ELSE "recv_persist")

\* Line 603, "+= 1": the load of the student's score ...
receive_data_score_read(S, L) ==
    Goto(S, [L EXCEPT !.tmp = ScoreOf(S.heap[L.obj], L.student)], "recv_score_write")

\* ... and the store of the incremented value.
receive_data_score_write(S, L) ==
    Goto([S EXCEPT !.heap[L.obj].student_scores = SetScore(@, L.student, L.tmp + 1)],
         L, "recv_persist")

\* Lines 606-627 with the append taken back when the Firestore write raises.
receive_data_persist_undo(S, L, store_ok) ==
    IF store_ok
    THEN Finish([S EXCEPT !.responses =
                     record_response(S, S.heap[L.obj].current_set_id, QuestionOf(S, L).id,
                                     L.student, L.option, L.correct)],
                L, "Accepted")
    ELSE Finish([S EXCEPT !.heap[L.obj].active_quiz[L.qi + 1].responses[L.option] =
                              SelectSeq(@, LAMBDA x : x # L.student)],
                L, "StoreError")

\* Lines 606-627 with the question looked up again, at the index the session
\* has when the write is made.
receive_data_persist_reread(S, L, store_ok) ==
    LET session == S.heap[L.obj]
        i == IF session.current_question_index < Len(session.active_quiz)
             THEN session.current_question_index ELSE L.qi
    IN  IF store_ok
        THEN Finish([S EXCEPT !.responses =
                         record_response(S, session.current_set_id,
                                         session.active_quiz[i + 1].id,
                                         L.student, L.option, L.correct)],
                    L, "Accepted")
        ELSE Finish(S, L, "StoreError")

\* Lines 606-627: the Firestore write; when it raises, the except clause
\* answers 500 and the in-memory state stays as it is.
receive_data_persist(S, L, store_ok) ==
    IF store_ok
    THEN Finish([S EXCEPT !.responses =
                     record_response(S, S.heap[L.obj].current_set_id, QuestionOf(S, L).id,
                                     L.student, L.option, L.correct)],
                L, "Accepted")
    ELSE Finish(S, L, "StoreError")

\* --------------------------------------------------------------- dashboard
\* cleanup_expired_sessions, lines 319-322: the time is read once and the
\* iteration over quiz_sessions.items() starts.
cleanup_begin(S) ==
    Goto(S, [InitLoc EXCEPT !.op = "dashboard", !.current_time = S.now,
                            !.iter_len = Cardinality(DOMAIN S.qs)],
         "cleanup_scan")

\* The age test with ">=" for ">".
Expired_inclusive(current_time, session) ==
    current_time - session.created_at >= TTLTicks

\* session_age.total_seconds() > 86400
Expired(current_time, session) == current_time - session.created_at > TTLTicks

\* Items the iteration has not reached.
Unvisited(S, L) == (DOMAIN S.qs) \ L.visited

\* Lines 322-325: one turn of the loop, at item k.  A dict that changed size
\* since the iteration started raises RuntimeError.
cleanup_scan(S, L, k) ==
    IF Cardinality(DOMAIN S.qs) # L.iter_len
    THEN Finish(S, L, "ServerError")
    ELSE IF Unvisited(S, L) = {}
    THEN Goto(S, L, "cleanup_delete")
    ELSE Goto(S, [L EXCEPT !.visited = @ \cup {k},
                           !.expired = IF Expired(L.current_time, S.heap[S.qs[k]])
                                       THEN Append(@, k) ELSE @],
              "cleanup_scan")

\* Lines 327-331: del quiz_sessions[session_id] for each expired id (a
\* KeyError when it has gone), then return len(expired_sessions).
cleanup_delete(S, L) ==
    IF L.count = Len(L.expired)
    THEN Goto(S, L, "dash_check")
    ELSE LET k == L.expired[L.count + 1]
         IN  IF k \notin DOMAIN S.qs
             THEN Finish(S, L, "ServerError")
             ELSE Goto([S EXCEPT !.qs = [j \in (DOMAIN S.qs) \ {k} |-> S.qs[j]]],
                       [L EXCEPT !.count = @ + 1], "cleanup_delete")

\* Lines 472-478: the guard on the current session.
dashboard_check(S, L) ==
    IF NoCurrentSession(S)
    THEN Finish(S, L, "NotFound")
    ELSE Goto(S, L, "dash_fetch")

\* Lines 480-494: the session and the question shown.
dashboard_fetch(S, L) ==
    IF S.cur \notin DOMAIN S.qs
    THEN Finish(S, L, "ServerError")
    ELSE LET o == S.qs[S.cur]
             i == S.heap[o].current_question_index
         IN  Finish(S, [L EXCEPT !.session_id = S.cur, !.qi = i],
                    IF i < 0 \/ i >= Len(S.heap[o].active_quiz)
                    THEN "InvalidIndex" ELSE "Current")

\* ----------------------------------------------------------- live_responses
\* Lines 636-640: no session is current, or the current one has been reaped.
live_responses_check(S) ==
    LET L == [InitLoc EXCEPT !.op = "live_responses"]
    IN  IF S.cur = None THEN Finish(S, L, "NotFound")
        ELSE IF S.cur \notin DOMAIN S.qs THEN Finish(S, L, "SessionExpired")
        ELSE Goto(S, L, "live_fetch")

\* Lines 642-653: the session, its index and the question at that index.
live_responses_fetch(S, L) ==
    IF S.cur \notin DOMAIN S.qs
    THEN Finish(S, L, "ServerError")
    ELSE LET o == S.qs[S.cur]
             i == S.heap[o].current_question_index
             M == [L EXCEPT !.session_id = S.cur, !.obj = o, !.qi = i]
         IN  IF i < 0 \/ i >= Len(S.heap[o].active_quiz)
             THEN Finish(S, M, "InvalidIndex")
             ELSE Goto(S, M, "live_query")

\* Lines 663-665: the documents .where("question_id", "==", question_id) selects.
DocsFor(store, question_id) ==
    [d \in {x \in BagToSet(store) : x.question_id = question_id} |-> CopiesIn(d, store)]

\* The orders in which .stream() may hand out the documents of a bag.
Orders(B) ==
    {order \in [1..BagCardinality(B) -> BagToSet(B)] :
        \A d \in BagToSet(B) :
            Cardinality({i \in 1..BagCardinality(B) : order[i] = d}) = CopiesIn(d, B)}

\* Lines 672-735 with every later document of a student skipped.
ListDocument_first(listed, d) ==
    LET entry == [student |-> d.student, option |-> d.answer,
                  correct |-> d.is_correct, timestamp |-> d.timestamp]
        seen == {i \in 1..Len(listed) : listed[i].student = d.student}
    IN  IF seen = {} THEN Append(listed, entry) ELSE listed

\* Lines 672-735, one document: the first document of a student is listed; a
\* later one replaces it when its timestamp is greater and is skipped otherwise.
ListDocument(listed, d) ==
    LET entry == [student |-> d.student, option |-> d.answer,
                  correct |-> d.is_correct, timestamp |-> d.timestamp]
        seen == {i \in 1..Len(listed) : listed[i].student = d.student}
    IN  IF seen = {} THEN Append(listed, entry)
        ELSE IF \A i \in seen : d.timestamp > listed[i].timestamp
        THEN Append(SelectSeq(listed, LAMBDA r : r.student # d.student), entry)
        ELSE listed

\* Lines 669-735: the loop over the stream.
RECURSIVE ListDocuments(_, _)
ListDocuments(listed, order) ==
    IF order = << >> THEN listed
    ELSE ListDocuments(ListDocument(listed, Head(order)), Tail(order))

\* Lines 744-756: the fallback, from the buckets of the question in memory
\* in dict order, every entry stamped with the time of the request.
RECURSIVE ListLedger(_, _, _)
ListLedger(question, t, k) ==
    IF k > Len(OptionOrder) THEN << >>
    ELSE [i \in 1..Len(question.responses[OptionOrder[k]]) |->
             [student |-> question.responses[OptionOrder[k]][i],
              option |-> OptionOrder[k],
              correct |-> (OptionOrder[k] = question.correct),
              timestamp |-> t]]
         \o ListLedger(question, t, k + 1)

\* Lines 758-762 without the sort.
SortByTimestamp_unsorted(list) == list

\* Line 760: responses.sort(key=timestamp, reverse=True), a stable sort.
RECURSIVE SortByTimestamp(_)
SortByTimestamp(list) ==
    IF list = << >> THEN << >>
    ELSE LET sorted == SortByTimestamp(SubSeq(list, 1, Len(list) - 1))
             x == list[Len(list)]
             k == Cardinality({i \in 1..Len(sorted) : sorted[i].timestamp >= x.timestamp})
         IN  SubSeq(sorted, 1, k) \o <<x>> \o SubSeq(sorted, k + 1, Len(sorted))

\* Lines 655-780: the Firestore query (or, when it raises, the fallback), the
\* sort and the answer.
live_responses_query(S, L, scan_ok, order) ==
    LET question == QuestionOf(S, L)
        listed == IF scan_ok THEN ListDocuments(<< >>, order)
                  ELSE ListLedger(question, S.now, 1)
    IN  Finish(S, [L EXCEPT !.view =
                         [question_id |-> question.id,
                          responses |-> SortByTimestamp(listed),
                          session_id |-> S.cur,
                          question_index |-> L.qi]],
               "View")

\* The whole handler, without interruption.
live_responses_whole(S, scan_ok, order) ==
    LET checked == live_responses_check(S)
        fetched == live_responses_fetch(checked.s, checked.loc)
    IN  IF checked.pc = "done" THEN checked
        ELSE IF fetched.pc = "done" THEN fetched
        ELSE live_responses_query(fetched.s, fetched.loc, scan_ok, order)

\* The request of the observer: the answer to it is the only thing the server
\* ever sends to the observer, who keeps it.
live_responses_observe(S, scan_ok, order) ==
    LET answered == live_responses_whole(S, scan_ok, order)
    IN  IF answered.loc.result = "View"
        THEN [answered EXCEPT !.s.observed = answered.loc.view]
        ELSE answered

\* The stream orders the query of the current question may see in state S.
StreamOrders(S) ==
    IF NoCurrentSession(S) THEN {<< >>}
    ELSE LET session == S.heap[S.qs[S.cur]]
         IN  IF session.current_question_index \notin 0..(Len(session.active_quiz) - 1)
             THEN {<< >>}
             ELSE Orders(DocsFor(S.responses,
                                 session.active_quiz[session.current_question_index + 1].id))

\* ----------------------------------------------------------------- analysis
\* A quotient n / d as Python computes it, kept exact; d = 0 raises
\* ZeroDivisionError.
Divide(n, d) == [num |-> n, den |-> d]

\* A sum of the values f gives on a finite set.
RECURSIVE SumOver(_, _)
SumOver(f, set) ==
    IF set = {} THEN 0
    ELSE LET x == CHOOSE y \in set : TRUE
         IN  f[x] + SumOver(f, set \ {x})

\* The number of documents of the collection among the selected ones.
CountDocs(store, selected) ==
    SumOver([d \in selected |-> CopiesIn(d, store)], selected)

\* Lines 276-284 counting every response of the student to the set.
correct_count_for_student_in_set_any(store, student, set_id) ==
    CountDocs(store, {d \in BagToSet(store) : d.student = student /\ d.set_id = set_id})

\* correct_count_for_student_in_set, lines 276-284.
correct_count_for_student_in_set(store, student, set_id) ==
    CountDocs(store, {d \in BagToSet(store) :
                         d.student = student /\ d.set_id = set_id /\ d.is_correct})

\* Line 874 without the guard on total_questions.
Percentage_unguarded(correct, total_questions) ==
    Divide(correct * 100, total_questions)

\* Line 874: (correct / total_questions) * 100 if total_questions else 0.
Percentage(correct, total_questions) ==
    IF total_questions # 0 THEN Divide(correct * 100, total_questions) ELSE Divide(0, 1)

\* Lines 840-841: the guard on the current session.
analysis_check(S) ==
    IF NoCurrentSession(S)
    THEN Finish(S, [InitLoc EXCEPT !.op = "analysis"], "NotFound")
    ELSE Goto(S, [InitLoc EXCEPT !.op = "analysis"], "analysis_fetch")

\* Lines 843-846: the session object.
analysis_fetch(S, L) ==
    IF S.cur \notin DOMAIN S.qs
    THEN Finish(S, L, "ServerError")
    ELSE Goto(S, [L EXCEPT !.session_id = S.cur, !.obj = S.qs[S.cur]], "analysis_report")

\* question_analysis_data, lines 286-300: per stored question the number of
\* responses and of correct responses to its id.
question_analysis_data(store, stored) ==
    [i \in 1..Len(stored) |->
        [question_id |-> stored[i].id,
         total |-> CountDocs(store, {d \in BagToSet(store) :
                                        d.question_id = stored[i].id}),
         corrects |-> CountDocs(store, {d \in BagToSet(store) :
                                           d.question_id = stored[i].id /\ d.is_correct})]]

\* Lines 848-912: the report.  stored is the question set as Firestore holds
\* it at the time of the request; a Firestore call that raises ends the
\* request with an error.
analysis_report(S, L, scan_ok, stored) ==
    LET session == S.heap[L.obj]
        set_id == session.current_set_id
        total_questions == Len(stored)
        students_from_responses ==
            {d.student : d \in {x \in BagToSet(S.responses) :
                                    x.set_id = set_id /\ x.student # ""}}
        all_students == (DOMAIN session.student_scores) \cup students_from_responses
        performance ==
            [st \in all_students |->
                [score |-> correct_count_for_student_in_set(S.responses, st, set_id),
                 total |-> total_questions,
                 percentage |->
                     Percentage(correct_count_for_student_in_set(S.responses, st, set_id),
                                total_questions)]]
        q_analysis == question_analysis_data(S.responses, stored)
        total_students == Cardinality(all_students)
        divisor == IF total_students > 1 THEN total_students ELSE 1
        report ==
            [performance |-> performance,
             scores |-> session.student_scores,
             question_analysis |-> q_analysis,
             total_students |-> total_students,
             total_responses |->
                 SumOver([i \in 1..Len(session.active_quiz) |->
                             Len(AllResponses(session.active_quiz[i]))],
                         1..Len(session.active_quiz)),
             average_score |->
                 Divide(SumOver([st \in all_students |-> performance[st].score], all_students),
                        divisor),
             average_percentage |->
                 Divide(SumOver([st \in all_students |->
                                    performance[st].percentage.num], all_students),
                        (IF total_questions # 0 THEN total_questions ELSE 1) * divisor),
             question_difficulty |->
                 [i \in {j \in 1..Len(q_analysis) : q_analysis[j].total > 0} |->
                     Divide(q_analysis[i].corrects * 100, q_analysis[i].total)]]
    IN  IF ~scan_ok \/ \E st \in all_students : performance[st].percentage.den = 0
        THEN Finish(S, L, "ServerError")
        ELSE Finish(S, [L EXCEPT !.view = report], "Report")

\* The whole handler, without interruption.
analysis_whole(S, scan_ok, stored) ==
    LET checked == analysis_check(S)
        fetched == analysis_fetch(checked.s, checked.loc)
    IN  IF checked.pc = "done" THEN checked
        ELSE IF fetched.pc = "done" THEN fetched
        ELSE analysis_report(fetched.s, fetched.loc, scan_ok, stored)

\* What Firestore may hold of the current session's question set when the
\* analysis is requested: the set as it was started, or nothing (delete_quiz).
StoredQuestions(S) ==
    IF NoCurrentSession(S) THEN {<< >>}
    ELSE {QuestionDocs(S.heap[S.qs[S.cur]].current_set_id), << >>}

\* ------------------------------------------------------------------ clock
\* Time passes: a full 24 hours first, single instants after that.
Tick ==
    /\ now < TTLTicks + MaxSkew
    /\ now' = IF now < TTLTicks THEN now + TTLTicks ELSE now + 1
    /\ UNCHANGED <<quiz_sessions, current_session_id, heap, responses, student_docs,
                   observed, submitted, calls, pc, loc>>

Init ==
    /\ quiz_sessions = << >>
    /\ current_session_id = None
    /\ heap = << >>
    /\ responses = EmptyBag
    /\ student_docs = << >>
    /\ now = 0
    /\ observed = None
    /\ submitted = 0
    /\ calls = 0
    /\ pc = [p \in Procs |-> "idle"]
    /\ loc = [p \in Procs |-> InitLoc]

\* ------------------------------------------------- interleaved handlers
\* Thread p takes the step with outcome r; n requests have been accepted.
Apply(p, r, n) ==
    LET out == r
    IN  /\ quiz_sessions' = out.s.qs
        /\ current_session_id' = out.s.cur
        /\ responses' = out.s.responses
        /\ student_docs' = out.s.students
        /\ observed' = out.s.observed
        /\ submitted' = out.s.submitted
        /\ pc' = [pc EXCEPT ![p] = out.pc]
        /\ loc' = [loc EXCEPT ![p] = out.loc]
        /\ heap' = Collect(out.s.heap, quiz_sessions', loc')
        /\ calls' = calls + n
        /\ UNCHANGED now

\* Thread p is free to serve a request.
Free(p) == pc[p] \in {"idle", "done"} /\ calls < MaxCalls

start_quiz(p) ==
    \/ /\ Free(p)
       /\ \E set_id \in SetIds : Apply(p, start_quiz_begin(State, set_id), 1)
    \/ /\ pc[p] = "start_create"
       /\ Apply(p, start_quiz_create(State, loc[p]), 0)
    \/ /\ pc[p] = "start_publish"
       /\ Apply(p, start_quiz_publish(State, loc[p]), 0)

next_question(p) ==
    \/ /\ Free(p)
       /\ Apply(p, next_question_check(State), 1)
    \/ /\ pc[p] = "next_fetch"
       /\ Apply(p, next_question_fetch(State, loc[p]), 0)
    \/ /\ pc[p] = "next_read"
       /\ Apply(p, next_question_read(State, loc[p]), 0)
    \/ /\ pc[p] = "next_write"
       /\ Apply(p, next_question_write(State, loc[p]), 0)

receive_data(p) ==
    \/ /\ Free(p) /\ submitted < MaxSubmits
       /\ \E student \in Students, option \in InputOptions :
              Apply(p, receive_data_check(State, student, option), 1)
    \/ /\ pc[p] = "recv_fetch"
       /\ Apply(p, receive_data_fetch(State, loc[p]), 0)
    \/ /\ pc[p] = "recv_dupcheck"
       /\ Apply(p, receive_data_dupcheck(State, loc[p]), 0)
    \/ /\ pc[p] = "recv_append"
       /\ Apply(p, receive_data_append(State, loc[p]), 0)
    \/ /\ pc[p] = "recv_score_read"
       /\ Apply(p, receive_data_score_read(State, loc[p]), 0)
    \/ /\ pc[p] = "recv_score_write"
       /\ Apply(p, receive_data_score_write(State, loc[p]), 0)
    \/ /\ pc[p] = "recv_persist"
       /\ \E store_ok \in BOOLEAN : Apply(p, receive_data_persist(State, loc[p], store_ok), 0)

cleanup_expired_sessions(p) ==
    \/ /\ Free(p)
       /\ Apply(p, cleanup_begin(State), 1)
    \/ /\ pc[p] = "cleanup_scan"
       /\ \/ /\ Unvisited(State, loc[p]) = {}
             /\ Apply(p, cleanup_scan(State, loc[p], None), 0)
          \/ \E k \in Unvisited(State, loc[p]) : Apply(p, cleanup_scan(State, loc[p], k), 0)
    \/ /\ pc[p] = "cleanup_delete"
       /\ Apply(p, cleanup_delete(State, loc[p]), 0)

dashboard(p) ==
    \/ cleanup_expired_sessions(p)
    \/ /\ pc[p] = "dash_check"
       /\ Apply(p, dashboard_check(State, loc[p]), 0)
    \/ /\ pc[p] = "dash_fetch"
       /\ Apply(p, dashboard_fetch(State, loc[p]), 0)

Next ==
    \/ Tick
    \/ \E p \in Procs : start_quiz(p)
    \/ \E p \in Procs : next_question(p)
    \/ \E p \in Procs : receive_data(p)
    \/ \E p \in Procs : dashboard(p)

Spec == Init /\ [][Next]_vars

\* --------------------------------------------------- one request at a time
\* The step a handler at step `at` takes next; the loop of
\* cleanup_expired_sessions visits the items in some fixed order.
StepOf(S, at, L, store_ok) ==
    CASE at = "start_create"     -> start_quiz_create(S, L)
      [] at = "start_publish"    -> start_quiz_publish(S, L)
      [] at = "next_fetch"       -> next_question_fetch(S, L)
      [] at = "next_read"        -> next_question_read(S, L)
      [] at = "next_write"       -> next_question_write(S, L)
      [] at = "recv_fetch"       -> receive_data_fetch(S, L)
      [] at = "recv_dupcheck"    -> receive_data_dupcheck(S, L)
      [] at = "recv_append"      -> receive_data_append(S, L)
      [] at = "recv_score_read"  -> receive_data_score_read(S, L)
      [] at = "recv_score_write" -> receive_data_score_write(S, L)
      [] at = "recv_persist"     -> receive_data_persist(S, L, store_ok)
      [] at = "cleanup_scan"     ->
            cleanup_scan(S, L, IF Unvisited(S, L) = {} THEN None
                               ELSE CHOOSE k \in Unvisited(S, L) : TRUE)
      [] at = "cleanup_delete"   -> cleanup_delete(S, L)
      [] at = "dash_check"       -> dashboard_check(S, L)
      [] at = "dash_fetch"       -> dashboard_fetch(S, L)

\* The handler run from outcome r until it returns.
RECURSIVE Run(_, _)
Run(r, store_ok) ==
    LET out == r
    IN  IF out.pc = "done" THEN out
        ELSE Run(StepOf(out.s, out.pc, out.loc, store_ok), store_ok)

\* Submissions racing with each other and with the instructor's requests,
\* within one clock instant.
NextRace ==
    \E p \in Procs :
        \/ start_quiz(p)
        \/ next_question(p)
        \/ receive_data(p)

SpecRace == Init /\ [][NextRace]_vars

\* A single thread serves the request whole.
Serve(r) == Apply(1, r, 0)

StartSession ==
    \E set_id \in SetIds : Serve(Run(start_quiz_begin(State, set_id), TRUE))

Advance == Serve(Run(next_question_check(State), TRUE))

Submit ==
    /\ submitted < MaxSubmits
    /\ \E student \in Students, option \in InputOptions, store_ok \in BOOLEAN :
           Serve(Run(receive_data_check(State, student, option), store_ok))

Dashboard == Serve(Run(cleanup_begin(State), TRUE))

LiveView ==
    \E scan_ok \in BOOLEAN, order \in StreamOrders(State) :
        Serve(live_responses_whole(State, scan_ok, order))

Observe ==
    \E scan_ok \in BOOLEAN, order \in StreamOrders(State) :
        Serve(live_responses_observe(State, scan_ok, order))

Analysis ==
    \E scan_ok \in BOOLEAN, stored \in StoredQuestions(State) :
        Serve(analysis_whole(State, scan_ok, stored))

\* Requests one at a time, all within one clock instant.
NextSeq ==
    \/ StartSession
    \/ Advance
    \/ Submit
    \/ Dashboard

SpecSeq == Init /\ [][NextSeq]_vars

\* The same with the two views requested in between.
NextView ==
    \/ StartSession
    \/ Advance
    \/ Submit
    \/ Dashboard
    \/ LiveView
    \/ Analysis

SpecView == Init /\ [][NextView]_vars

\* The same with an observer that keeps what it is sent.
NextObserved ==
    \/ StartSession
    \/ Advance
    \/ Submit
    \/ LiveView
    \/ Observe

SpecObserved == Init /\ [][NextObserved]_vars

\* Requests one at a time, while time passes.
NextTimed ==
    \/ Tick
    \/ StartSession
    \/ Advance
    \/ (submitted < MaxTimedSubmits /\ Submit)
    \/ Dashboard

SpecTimed == Init /\ [][NextTimed]_vars

\* Sessions started one after another, within a second or a day apart, with
\* submissions in between.
NextRestart ==
    \/ Tick
    \/ StartSession
    \/ (submitted < MaxTimedSubmits /\ Submit)

SpecRestart == Init /\ [][NextRestart]_vars

\* The documents earlier runs of the server may have left in the collection:
\* responses to the questions of set s1, written up to MaxAge instants ago.
StoredDocs ==
    {[set_id |-> "s1", question_id |-> QuestionDocs("s1")[i].id, student |-> st,
      answer |-> o, is_correct |-> (o = QuestionDocs("s1")[i].correct),
      timestamp |-> 0 - age] :
        i \in 1..Len(QuestionDocs("s1")), st \in Students,
        o \in Options \cap InputOptions, age \in 0..MaxAge}

\* The bag of the members of a sequence.
RECURSIVE BagOfSeq(_)
BagOfSeq(seq) ==
    IF seq = << >> THEN EmptyBag
    ELSE BagOfSeq(Tail(seq)) (+) SetToBag({Head(seq)})

\* The collections of at most MaxStored such documents.
StoredBags ==
    {BagOfSeq(seq) : seq \in UNION {[1..n -> StoredDocs] : n \in 0..MaxStored}}

\* The server has just come up: nothing in memory, the collection as the
\* earlier runs left it.
InitStored ==
    /\ quiz_sessions = << >>
    /\ current_session_id = None
    /\ heap = << >>
    /\ responses \in StoredBags
    /\ student_docs = << >>
    /\ now = 0
    /\ observed = None
    /\ submitted = 0
    /\ calls = 0
    /\ pc = [p \in Procs |-> "idle"]
    /\ loc = [p \in Procs |-> InitLoc]

\* A session is started and the live view is requested for its questions.
NextStream ==
    \/ StartSession
    \/ Advance
    \/ LiveView

SpecStream == InitStored /\ [][NextStream]_vars

\* A set run in session after session, with answers to each and the analysis
\* asked for in between; requests one at a time, within one clock instant.
Resubmit ==
    /\ submitted < MaxRepeatSubmits
    /\ \E student \in Students, option \in InputOptions, store_ok \in BOOLEAN :
           Serve(Run(receive_data_check(State, student, option), store_ok))

NextRepeat ==
    \/ StartSession
    \/ Advance
    \/ Resubmit
    \/ Analysis

SpecRepeat == Init /\ [][NextRepeat]_vars

\* Requests as the readers send them: a tag or a name, resolved to the
\* student by the handler; one at a time, within one clock instant.
SubmitAs ==
    /\ submitted < MaxSubmits
    /\ \E tag_id \in Tags \cup {""}, student_name \in Students \cup {""},
          option \in InputOptions, store_ok \in BOOLEAN :
           Serve(Run(receive_data_resolve(State, tag_id, student_name, option), store_ok))

NextRoster ==
    \/ StartSession
    \/ SubmitAs

SpecRoster == Init /\ [][NextRoster]_vars

\* -------------------------------------------------------------- properties
\* The session object registered under id k.
SessionAt(k) == heap[quiz_sessions[k]]

\* The places (bucket, position) at which a student stands in a question's ledger.
Entries(question, student) ==
    UNION {{<<o, j>> : j \in {i \in 1..Len(question.responses[o]) :
                                question.responses[o][i] = student}} : o \in Options}

\* A session is current and its index points at one of its questions.
HasCurrentQuestion ==
    /\ current_session_id # None
    /\ current_session_id \in DOMAIN quiz_sessions
    /\ SessionAt(current_session_id).current_question_index \in
           0..(Len(SessionAt(current_session_id).active_quiz) - 1)

CurrentQuestion ==
    SessionAt(current_session_id).active_quiz[
        SessionAt(current_session_id).current_question_index + 1]

\* The outcome of a request served whole from the present state.
SubmitOutcome(student, option, store_ok) ==
    Run(receive_data_check(State, student, option), store_ok)
AdvanceOutcome == Run(next_question_check(State), TRUE)
DashboardOutcome == Run(cleanup_begin(State), TRUE)
StartOutcome(set_id) == Run(start_quiz_begin(State, set_id), TRUE)

\* Thread 1 has just answered a request of handler op with this result.
Answered(op, result) ==
    pc[1] = "done" /\ loc[1].op = op /\ loc[1].result = result

\* C1: with requests served one at a time, every student stands at most once
\* in the ledger of every question of every registered session, and a Submit
\* by a student who already stands in any bucket of the current question is
\* rejected whichever option it names, leaving the state as it was.
C1_OncePerQuestion ==
    /\ \A k \in DOMAIN quiz_sessions :
         \A i \in 1..Len(SessionAt(k).active_quiz) :
           \A st \in Students :
             Cardinality(Entries(SessionAt(k).active_quiz[i], st)) <= 1
    /\ HasCurrentQuestion =>
         \A st \in Students :
           Entries(CurrentQuestion, st) # {} =>
             \A o \in InputOptions, ok \in BOOLEAN :
               LET answered == SubmitOutcome(st, o, ok)
               IN  /\ answered.loc.result \in {"DuplicateStudent", "MissingOption"}
                   /\ answered.s = State

\* C1 witness: a student standing in bucket A has just been refused bucket B.
C1_SecondSubmitRefused ==
    /\ Answered("receive_data", "DuplicateStudent")
    /\ loc[1].option = "B"
    /\ HasCurrentQuestion
    /\ InList(loc[1].student, CurrentQuestion.responses["A"])

\* C2: also with the steps of concurrent Submit calls interleaved, no student
\* stands more than once in the ledger of a question of any live session
\* object (exactly one of two simultaneous Submits is accepted).
C2_ExactlyOneAccepted ==
    \A x \in DOMAIN heap :
      \A i \in 1..Len(heap[x].active_quiz) :
        \A st \in Students :
          Cardinality(Entries(heap[x].active_quiz[i], st)) <= 1

\* C3: in every state, concurrent Advance calls included, the index of every
\* registered session lies in 0 .. len(questions)-1.
C3_IndexInRange ==
    \A k \in DOMAIN quiz_sessions :
      /\ 0 <= SessionAt(k).current_question_index
      /\ SessionAt(k).current_question_index <= Len(SessionAt(k).active_quiz) - 1

\* C4: StartSession on a set without questions fails with EmptyQuestionSet and
\* leaves registry, session objects and current pointer as they were.
C4_EmptySetRejected ==
    \A set_id \in SetIds :
      QuestionDocs(set_id) = << >> =>
        LET started == StartOutcome(set_id)
        IN  /\ started.loc.result = "EmptyQuestionSet"
            /\ started.s.qs = quiz_sessions
            /\ started.s.cur = current_session_id
            /\ started.s.heap = heap

\* C4 witness: the empty set has just been refused while a session is current.
C4_EmptySetRefusedWhileRunning ==
    /\ Answered("start_quiz", "EmptyQuestionSet")
    /\ current_session_id \in DOMAIN quiz_sessions

\* Thread 1 serves a StartSession whole in this step, with success.
StartSessionStep ==
    /\ now' = now
    /\ pc'[1] = "done" /\ loc'[1].op = "start_quiz" /\ loc'[1].result = "Started"

\* C5: every successful StartSession makes an id the registry did not hold,
\* so the registry gains exactly that session and every session it held stays
\* under its id as it was.
C5_FreshSessionId ==
    [][StartSessionStep =>
          /\ current_session_id' \notin DOMAIN quiz_sessions
          /\ DOMAIN quiz_sessions' = (DOMAIN quiz_sessions) \cup {current_session_id'}
          /\ \A k \in DOMAIN quiz_sessions :
                heap'[quiz_sessions'[k]] = heap[quiz_sessions[k]]]_vars

\* The sessions older than 24 hours at this instant.
OlderThanTTL ==
    {k \in DOMAIN quiz_sessions :
        now - SessionAt(k).created_at > TTLSeconds * TicksPerSecond}

\* C6: Reap removes exactly the sessions whose age is strictly greater than
\* 24 hours, keeps every other session as it was (one aged exactly 24 hours
\* too), and returns the number of sessions it removed.
C6_ReapExactlyExpired ==
    LET reaped == DashboardOutcome
    IN  /\ DOMAIN reaped.s.qs = (DOMAIN quiz_sessions) \ OlderThanTTL
        /\ \A k \in DOMAIN reaped.s.qs : reaped.s.heap[reaped.s.qs[k]] = SessionAt(k)
        /\ reaped.loc.count = Cardinality(OlderThanTTL)

\* C6 witness: a Reap has just removed a session and kept a younger one.
C6_ReapedOneKeptOne ==
    /\ pc[1] = "done" /\ loc[1].op = "dashboard" /\ loc[1].count >= 1
    /\ DOMAIN quiz_sessions # {}

\* The current pointer names a session the registry no longer holds.
DanglingPointer ==
    current_session_id # None /\ current_session_id \notin DOMAIN quiz_sessions

C8_SupersededSessionFrozen ==
    [][\A k \in DOMAIN quiz_sessions :
          (/\ current_session_id # None
           /\ k # current_session_id
           /\ k \in DOMAIN quiz_sessions'
           /\ quiz_sessions'[k] = quiz_sessions[k])
          => heap'[quiz_sessions'[k]] = heap[quiz_sessions[k]]]_vars

\* Option parameters that are present but none of the four letters.
BadOptions == InputOptions \ (Options \cup {""})

CorrectlyAnswered(session, student) ==
    {i \in 1..Len(session.active_quiz) :
        \E j \in 1..Len(session.active_quiz[i].responses[session.active_quiz[i].correct]) :
            session.active_quiz[i].responses[session.active_quiz[i].correct][j] = student}

\* A student's score in the session object registered now under k, after outcome r.
ScoreAfter(r, k, student) == ScoreOf(r.s.heap[quiz_sessions[k]], student)

\* Outcome r leaves every score of every session object registered now as it is.
ScoresKept(r) ==
    \A k \in DOMAIN quiz_sessions : \A t \in Students :
      ScoreAfter(r, k, t) = ScoreOf(SessionAt(k), t)

\* No request is being served.
Quiescent == \A p \in Procs : pc[p] \in {"idle", "done"}

\* C10: whenever no request is being served, each student's score in each
\* registered session is the number of that session's questions whose correct
\* bucket holds the student.
C10_ScoreMatchesLedger ==
    Quiescent =>
      \A k \in DOMAIN quiz_sessions : \A st \in Students :
        ScoreOf(SessionAt(k), st) = Cardinality(CorrectlyAnswered(SessionAt(k), st))

\* With requests served one at a time the scores do follow the ledgers: each
\* score is that number, a Submit accepted with the correct option raises the
\* student's score in the current session by exactly 1, and every other
\* Submit and every Advance, Reap and StartSession leaves all scores of the
\* session objects as they were.
ScoreCountsCorrectSerially ==
    /\ \A k \in DOMAIN quiz_sessions : \A st \in Students :
          ScoreOf(SessionAt(k), st) = Cardinality(CorrectlyAnswered(SessionAt(k), st))
    /\ \A st \in Students, o \in InputOptions, ok \in BOOLEAN :
         LET answered == SubmitOutcome(st, o, ok)
         IN  IF /\ answered.loc.result \in {"Accepted", "StoreError"}
                /\ o = CurrentQuestion.correct
             THEN \A k \in DOMAIN quiz_sessions : \A t \in Students :
                    ScoreAfter(answered, k, t) =
                      ScoreOf(SessionAt(k), t) +
                        (IF k = current_session_id /\ t = st THEN 1 ELSE 0)
             ELSE ScoresKept(answered)
    /\ ScoresKept(AdvanceOutcome)
    /\ ScoresKept(DashboardOutcome)
    /\ \A set_id \in SetIds : ScoresKept(StartOutcome(set_id))

\* C11: when the Firestore write of a Submit fails after the append, the
\* student stands in the chosen bucket of the current question, the score is
\* raised if the option is the correct one, and a further Submit by that
\* student is refused as a duplicate whichever option it names.
C11_StoreFailureKeepsAcceptance ==
    HasCurrentQuestion =>
      \A st \in Students, o \in InputOptions :
        LET failed == SubmitOutcome(st, o, FALSE)
            kept == failed.s.heap[quiz_sessions[current_session_id]]
            q == kept.active_quiz[kept.current_question_index + 1]
        IN  failed.loc.result = "StoreError" =>
              /\ Entries(q, st) = {<<o, Len(q.responses[o])>>}
              /\ ScoreOf(kept, st) =
                    ScoreOf(SessionAt(current_session_id), st) +
                      (IF o = q.correct THEN 1 ELSE 0)
              /\ \A again \in InputOptions \ {""} :
                    Run(receive_data_check(failed.s, st, again), TRUE).loc.result
                        = "DuplicateStudent"

\* C11 witness: a correct answer whose Firestore write has just failed is in
\* the ledger and has been scored.
C11_FailedWriteStillCounted ==
    /\ Answered("receive_data", "StoreError") /\ loc[1].correct
    /\ HasCurrentQuestion
    /\ InList(loc[1].student, AllResponses(CurrentQuestion))
    /\ ScoreOf(SessionAt(current_session_id), loc[1].student) >= 1

\* C12: what a Submit answers does not depend on whether the Firestore write
\* succeeds: with the write failing it answers what it answers with the write
\* succeeding, accepted and isCorrect included.
C12_AnswerIgnoresStore ==
    \A st \in Students, o \in InputOptions :
      SubmitOutcome(st, o, FALSE).loc = SubmitOutcome(st, o, TRUE).loc

\* The answer /api/live_responses gives in the present state.
LiveViewNow(scan_ok, order) == live_responses_whole(State, scan_ok, order).loc.view

\* The students a view lists.
Listed(view) == {view.responses[i].student : i \in 1..Len(view.responses)}

\* C13: every LiveView lists every student who stands in the ledger of the
\* current question, whether the Firestore query answers or raises.
C13_LiveViewShowsAccepted ==
    HasCurrentQuestion =>
      \A scan_ok \in BOOLEAN, order \in StreamOrders(State) :
        \A st \in Students :
          Entries(CurrentQuestion, st) # {} => st \in Listed(LiveViewNow(scan_ok, order))

\* C14: every LiveView lists only students who stand in the ledger of the
\* current question of the current session, under the option and with the
\* correctness the ledger gives.
C14_LiveViewOnlyLedger ==
    HasCurrentQuestion =>
      \A scan_ok \in BOOLEAN, order \in StreamOrders(State) :
        \A i \in 1..Len(LiveViewNow(scan_ok, order).responses) :
          LET r == LiveViewNow(scan_ok, order).responses[i]
          IN  /\ r.option \in Options
              /\ InList(r.student, CurrentQuestion.responses[r.option])
              /\ r.correct = (r.option = CurrentQuestion.correct)

\* The analysis answered from the present state.
AnalysisOutcome(scan_ok, stored) == analysis_whole(State, scan_ok, stored)

\* The question set of the current session as it was started.
StartedQuestions == QuestionDocs(SessionAt(current_session_id).current_set_id)

\* The students standing in some ledger of the current session.
Respondents ==
    {st \in Students : \E i \in 1..Len(SessionAt(current_session_id).active_quiz) :
        Entries(SessionAt(current_session_id).active_quiz[i], st) # {}}

\* The durable collection holds one document per entry of the current
\* session's ledgers and nothing else: no earlier response, no failed write.
StoreMirrorsLedgers ==
    LET session == SessionAt(current_session_id)
    IN  /\ \A d \in BagToSet(responses) :
              /\ d.set_id = session.current_set_id
              /\ \E i \in 1..Len(session.active_quiz) :
                   session.active_quiz[i].id = d.question_id
              /\ d.answer \in Options
        /\ \A i \in 1..Len(session.active_quiz), o \in Options, st \in Students :
              CountDocs(responses,
                        {d \in BagToSet(responses) :
                            /\ d.student = st /\ d.answer = o
                            /\ d.question_id = session.active_quiz[i].id})
              = Cardinality({e \in Entries(session.active_quiz[i], st) : e[1] = o})

C16_EveryRespondentListed ==
    (current_session_id # None /\ current_session_id \in DOMAIN quiz_sessions)
    => \A stored \in StoredQuestions(State) :
          LET r == AnalysisOutcome(TRUE, stored)
          IN  /\ r.loc.result = "Report"
              /\ \A st \in Respondents :
                    /\ st \in DOMAIN r.loc.view.performance
                    /\ (CorrectlyAnswered(SessionAt(current_session_id), st) = {}
                          => r.loc.view.performance[st].score = 0)

\* C17: whatever of the question set is stored and whoever answered, the
\* analysis is computed without a division by zero: it is answered with a
\* report (or the redirect when no session is current), a percentage over no
\* questions is 0, and both averages over no students are 0.
C17_NoDivisionByZero ==
    \A stored \in StoredQuestions(State) :
      LET r == AnalysisOutcome(TRUE, stored)
      IN  /\ r.loc.result \in {"Report", "NotFound"}
          /\ r.loc.result = "Report" =>
               /\ \A st \in DOMAIN r.loc.view.performance :
                     /\ r.loc.view.performance[st].percentage.den # 0
                     /\ r.loc.view.performance[st].total = 0
                          => r.loc.view.performance[st].percentage.num = 0
               /\ r.loc.view.average_score.den # 0
               /\ r.loc.view.average_percentage.den # 0
               /\ r.loc.view.total_students = 0
                    => /\ r.loc.view.average_score.num = 0
                       /\ r.loc.view.average_percentage.num = 0
               /\ \A i \in DOMAIN r.loc.view.question_difficulty :
                     r.loc.view.question_difficulty[i].den # 0

\* C17 witness: an analysis was sent for a session whose question set is no
\* longer stored, listing a student with total 0 and 0 percent.
C17_ReportOverNoQuestions ==
    /\ Answered("analysis", "Report")
    /\ \E st \in DOMAIN loc[1].view.performance :
          /\ loc[1].view.performance[st].total = 0
          /\ loc[1].view.performance[st].score > 0
          /\ loc[1].view.performance[st].percentage.num = 0

\* C17 second witness: an analysis was sent that lists no student at all.
C17_ReportOverNoStudents ==
    /\ Answered("analysis", "Report")
    /\ loc[1].view.total_students = 0
    /\ loc[1].view.average_score = Divide(0, 1)

\* C18: once the observer holds a view of the current question, every accepted
\* Submit to that question leaves the observer with a view that lists the
\* student, and every Advance leaves it with a view of the new question.
C18_ObserverFollows ==
    (/\ HasCurrentQuestion
     /\ observed # None
     /\ observed.session_id = current_session_id
     /\ observed.question_index = SessionAt(current_session_id).current_question_index)
    => /\ \A st \in Students, o \in Options \cap InputOptions :
            LET r == SubmitOutcome(st, o, TRUE)
            IN  r.loc.result = "Accepted" => st \in Listed(r.s.observed)
       /\ LET a == AdvanceOutcome
          IN  a.loc.result = "Advanced" =>
                a.s.observed.question_index
                  = a.s.heap[a.s.qs[a.s.cur]].current_question_index

\* C19: with requests interleaved, no step of cleanup_expired_sessions raises:
\* the loop over the registry never meets a registry that changed size, and
\* every id the loop collected is still registered when it is deleted.
C19_ReapNeverRaises ==
    \A p \in Procs :
      /\ pc[p] = "cleanup_scan" =>
           \A k \in (IF Unvisited(State, loc[p]) = {} THEN {None}
                     ELSE Unvisited(State, loc[p])) :
             cleanup_scan(State, loc[p], k).loc.result # "ServerError"
      /\ pc[p] = "cleanup_delete" =>
           cleanup_delete(State, loc[p]).loc.result # "ServerError"

\* The question a thread serving receive_data holds since line 567.
HeldQuestion(p) == QuestionOf(State, loc[p])

\* The ledgers of all questions of all session objects but one.
OtherLedgersKept(obj, i) ==
    \A o \in DOMAIN heap : \A j \in 1..Len(heap[o].active_quiz) :
      (o # obj \/ j # i) =>
         (o \in DOMAIN heap' /\ heap'[o].active_quiz[j] = heap[o].active_quiz[j])

\* C20: with requests interleaved, every Submit that appends does so to the
\* ledger of the one question it holds, leaving every other ledger as it is;
\* the correctness it decides is that of this question, it goes on to raise the
\* score exactly when that is true, and the durable record it writes and the
\* answer it returns carry this question's id and this correctness, wherever
\* the session's index has been moved in the meantime.
C20_OneQuestionThroughout ==
    [][\A p \in Procs :
         /\ (pc[p] = "recv_append" /\ pc'[p] # "recv_append") =>
              /\ heap'[loc[p].obj].active_quiz[loc[p].qi + 1].responses =
                   [HeldQuestion(p).responses EXCEPT
                      ![loc[p].option] = Append(@, loc[p].student)]
              /\ OtherLedgersKept(loc[p].obj, loc[p].qi + 1)
              /\ loc'[p].correct = (loc[p].option = HeldQuestion(p).correct)
              /\ pc'[p] = IF loc[p].option = HeldQuestion(p).correct
                          THEN "recv_score_read" ELSE "recv_persist"
         /\ (pc[p] = "recv_score_write" /\ pc'[p] # "recv_score_write") =>
              /\ loc[p].option = HeldQuestion(p).correct
              /\ ScoreOf(heap'[loc[p].obj], loc[p].student) = loc[p].tmp + 1
         /\ (pc[p] = "recv_persist" /\ pc'[p] = "done") =>
              /\ InList(loc[p].student, HeldQuestion(p).responses[loc[p].option])
              /\ loc'[p].correct = (loc[p].option = HeldQuestion(p).correct)
              /\ loc'[p].result = "Accepted" =>
                   responses' = responses (+) SetToBag(
                       {[set_id |-> heap[loc[p].obj].current_set_id,
                         question_id |-> HeldQuestion(p).id,
                         student |-> loc[p].student,
                         answer |-> loc[p].option,
                         is_correct |-> (loc[p].option = HeldQuestion(p).correct),
                         timestamp |-> now]})
    ]_vars

\* C20 witness: a Submit that holds the first question has appended the
\* student to its ledger, decided the answer correct and raised the score,
\* and is about to write its record, while the session's index has already
\* been moved to the second question.
C20_SubmitOvertakenByAdvance ==
    \E p \in Procs :
      /\ pc[p] = "recv_persist"
      /\ loc[p].qi = 0 /\ loc[p].correct
      /\ heap[loc[p].obj].current_question_index = 1
      /\ Entries(heap[loc[p].obj].active_quiz[1], loc[p].student) = {<<loc[p].option, 1>>}
      /\ Entries(heap[loc[p].obj].active_quiz[2], loc[p].student) = {}
      /\ ScoreOf(heap[loc[p].obj], loc[p].student) = 1

\* C21: with requests served one at a time and a session current, an Advance
\* is answered without an error; it raises the index of the current session
\* by exactly 1 when the index is below the last one and leaves it as it is
\* at the last one; the ledgers and scores of every session, the registry, the
\* current pointer and the durable collection stay as they are.
C21_AdvanceByOneOrStay ==
    HasCurrentQuestion =>
      LET r == AdvanceOutcome
          o == quiz_sessions[current_session_id]
          session == SessionAt(current_session_id)
          last == Len(session.active_quiz) - 1
      IN  /\ r.loc.result = "Advanced"
          /\ session.current_question_index < last =>
               r.s.heap[o].current_question_index = session.current_question_index + 1
          /\ session.current_question_index = last =>
               r.s.heap[o].current_question_index = last
          /\ r.s.heap[o] = [session EXCEPT !.current_question_index =
                                              r.s.heap[o].current_question_index]
          /\ \A other \in (DOMAIN heap) \ {o} : r.s.heap[other] = heap[other]
          /\ r.s.qs = quiz_sessions
          /\ r.s.cur = current_session_id
          /\ r.s.responses = responses

\* C21 witness: an Advance has just been answered for a session that holds a
\* response and a score and now stands at its last question.
C21_AdvancedToLast ==
    /\ Answered("next_question", "Advanced")
    /\ HasCurrentQuestion
    /\ SessionAt(current_session_id).current_question_index
         = Len(SessionAt(current_session_id).active_quiz) - 1
    /\ Entries(SessionAt(current_session_id).active_quiz[1], "alice") # {}
    /\ ScoreOf(SessionAt(current_session_id), "alice") = 1

\* C22: with requests served one at a time, a StartSession that succeeds
\* registers under the id of this second a new session object, which is
\* current, stands at index 0, has no score and an empty ledger for every
\* question, and leaves every session object there was as it is; in the new
\* session every student is accepted once with any valid option, and refused
\* the second time, whatever the student answered in earlier sessions.
C22_FreshSession ==
    \A set_id \in SetIds :
      LET r == StartOutcome(set_id)
      IN  r.loc.result = "Started" =>
            LET o == r.s.qs[r.s.cur]
                new == r.s.heap[o]
            IN  /\ r.s.cur = SessionIdFor(set_id, now)
                /\ r.s.cur \in DOMAIN r.s.qs
                /\ o \notin DOMAIN heap
                /\ new.current_question_index = 0
                /\ new.student_scores = << >>
                /\ new.current_set_id = set_id
                /\ Len(new.active_quiz) = Len(QuestionDocs(set_id))
                /\ \A i \in 1..Len(new.active_quiz) :
                      new.active_quiz[i].responses = EmptyResponses
                /\ \A other \in DOMAIN heap : r.s.heap[other] = heap[other]
                /\ \A st \in Students, opt \in Options \cap InputOptions :
                      LET first == Run(receive_data_check(r.s, st, opt), TRUE)
                          second == Run(receive_data_check(first.s, st, opt), TRUE)
                      IN  /\ first.loc.result = "Accepted"
                          /\ Entries(first.s.heap[o].active_quiz[1], st) = {<<opt, 1>>}
                          /\ \A other \in DOMAIN heap : first.s.heap[other] = heap[other]
                          /\ second.loc.result = "DuplicateStudent"

\* C22 witness: a session has just been started on a set of which an earlier
\* session, still registered, holds alice's response to the first question;
\* the new session is current and its ledgers are empty.
C22_RestartedAfterResponses ==
    /\ Answered("start_quiz", "Started")
    /\ HasCurrentQuestion
    /\ \A i \in 1..Len(SessionAt(current_session_id).active_quiz) :
          SessionAt(current_session_id).active_quiz[i].responses = EmptyResponses
    /\ \E k \in (DOMAIN quiz_sessions) \ {current_session_id} :
          /\ SessionAt(k).current_set_id = SessionAt(current_session_id).current_set_id
          /\ Entries(SessionAt(k).active_quiz[1], "alice") # {}

\* An id made in a second that has gone by.
PastId(k, t) == k[2] < SecondOf(t)

\* C23: with requests served one at a time and a clock that never goes back,
\* every id that leaves the registry is the id of a second gone by, and no id
\* of a second gone by ever enters the registry; so an id that Reap removed is
\* never a key of the registry again.
C23_NoResurrection ==
    [][/\ now' >= now
       /\ \A k \in (DOMAIN quiz_sessions) \ (DOMAIN quiz_sessions') : PastId(k, now')
       /\ \A k \in (DOMAIN quiz_sessions') \ (DOMAIN quiz_sessions) : ~PastId(k, now)
    ]_vars

\* C23 witness: a session has just been started on the set of a session that
\* took a response at instant 0 and has been reaped since; the registry holds
\* the new id and not the old one.
C23_StartedAfterReap ==
    /\ Answered("start_quiz", "Started")
    /\ HasCurrentQuestion
    /\ \E d \in BagToSet(responses) :
          /\ d.timestamp = 0
          /\ d.set_id = SessionAt(current_session_id).current_set_id
          /\ SessionIdFor(d.set_id, 0) \notin DOMAIN quiz_sessions
          /\ current_session_id # SessionIdFor(d.set_id, 0)
    /\ DOMAIN quiz_sessions = {current_session_id}

\* The documents of the collection a student wrote for a question.
DocsOf(student, question_id) ==
    {d \in BagToSet(responses) : d.student = student /\ d.question_id = question_id}

\* C24: whatever the order in which Firestore streams the documents of the
\* current question, the view made from them lists every student who has such
\* a document exactly once and nobody else, with the option and correctness
\* of a document of that student whose timestamp no other of them exceeds.
C24_LatestPerStudent ==
    HasCurrentQuestion =>
      \A order \in StreamOrders(State) :
        LET view == LiveViewNow(TRUE, order)
        IN  \A st \in Students :
              LET at == {i \in 1..Len(view.responses) : view.responses[i].student = st}
                  docs == DocsOf(st, CurrentQuestion.id)
              IN  /\ Cardinality(at) = IF docs = {} THEN 0 ELSE 1
                  /\ \A i \in at :
                        /\ \A d \in docs : d.timestamp <= view.responses[i].timestamp
                        /\ \E d \in docs :
                              /\ d.timestamp = view.responses[i].timestamp
                              /\ d.answer = view.responses[i].option
                              /\ d.is_correct = view.responses[i].correct

\* C24 witness: a view has just been sent that lists alice once, with the
\* later of two documents she wrote for the question at different instants
\* and with different options.
C24_LaterOfTwoListed ==
    /\ Answered("live_responses", "View")
    /\ HasCurrentQuestion
    /\ \E d, e \in DocsOf("alice", CurrentQuestion.id) :
          /\ d.timestamp < e.timestamp
          /\ d.answer # e.answer
          /\ \E i \in 1..Len(loc[1].view.responses) :
                /\ loc[1].view.responses[i].student = "alice"
                /\ loc[1].view.responses[i].timestamp = e.timestamp
                /\ loc[1].view.responses[i].option = e.answer

\* C25: whether Firestore answers the query or raises, and whatever the order
\* of its stream, the responses of the view stand in descending order of
\* their timestamps.
C25_MostRecentFirst ==
    HasCurrentQuestion =>
      \A scan_ok \in BOOLEAN, order \in StreamOrders(State) :
        LET view == LiveViewNow(scan_ok, order)
        IN  \A i, j \in 1..Len(view.responses) :
              i < j => view.responses[i].timestamp >= view.responses[j].timestamp

\* C25 witness: a view has just been sent that lists two students, the one
\* with the later timestamp first.
C25_LaterListedFirst ==
    /\ Answered("live_responses", "View")
    /\ Len(loc[1].view.responses) = 2
    /\ loc[1].view.responses[1].student # loc[1].view.responses[2].student
    /\ loc[1].view.responses[1].timestamp > loc[1].view.responses[2].timestamp

\* What a view says of the responses, their timestamps apart.
Shown(view) ==
    {[student |-> view.responses[i].student, option |-> view.responses[i].option,
      correct |-> view.responses[i].correct] : i \in 1..Len(view.responses)}

\* C26: a request for the live view changes nothing of the state, and a second
\* request right after it, the collection streaming its documents in the same
\* order, shows the same responses as the first, whether Firestore answers
\* each of the two queries or not.
C26_SameViewTwice ==
    HasCurrentQuestion =>
      \A order \in StreamOrders(State), scan_first \in BOOLEAN, scan_second \in BOOLEAN :
        LET first == live_responses_whole(State, scan_first, order)
            second == live_responses_whole(first.s, scan_second, order)
        IN  /\ first.s = State
            /\ Shown(second.loc.view) = Shown(first.loc.view)

\* The part of C26 that holds: the request changes nothing of the state, and
\* answered the same way by Firestore it shows the same responses again.
LiveViewChangesNothing ==
    HasCurrentQuestion =>
      \A order \in StreamOrders(State), scan_ok \in BOOLEAN :
        LET first == live_responses_whole(State, scan_ok, order)
            second == live_responses_whole(first.s, scan_ok, order)
        IN  /\ first.s = State
            /\ second.loc.view = first.loc.view

\* ------------------------------------------------------------------ C27
\* The four refusals of receive_data (lines 546-548, 551-553, 576-579, 588-590).
Refusals == {"MissingOption", "NotFound", "DuplicateStudent", "InvalidOption"}

\* C27: a submission that is refused (missing option, no current session,
\* student already answered, option not on the question) leaves the registry,
\* the pointer, every session's index, ledgers and scoreboard, and the
\* durable response log exactly as they were.
C27_RefusalChangesNothing ==
    \A st \in Students, o \in InputOptions, store_ok \in BOOLEAN :
        LET r == SubmitOutcome(st, o, store_ok)
        IN  r.loc.result \in Refusals =>
                /\ r.s.qs = quiz_sessions
                /\ r.s.cur = current_session_id
                /\ r.s.heap = heap
                /\ r.s.responses = responses

\* A duplicate was just refused while the ledger and the log hold a response.
C27_DuplicateRefused ==
    /\ Answered("receive_data", "DuplicateStudent")
    /\ responses # EmptyBag
    /\ \E st \in Students : SubmitOutcome(st, "A", TRUE).loc.result = "DuplicateStudent"

\* ------------------------------------------------------------------ C28
\* C28: in the analysis of the current session every student's score is at
\* most the number of questions, and the percentage lies between 0 and 100,
\* whatever sessions were run before, of the same set included.
C28_ScoreAtMostTotal ==
    HasCurrentQuestion =>
        LET r == AnalysisOutcome(TRUE, StartedQuestions)
        IN  r.loc.result = "Report" =>
                \A st \in DOMAIN r.loc.view.performance :
                    /\ r.loc.view.performance[st].score >= 0
                    /\ r.loc.view.performance[st].score <= r.loc.view.performance[st].total
                    /\ r.loc.view.performance[st].percentage.num >= 0
                    /\ r.loc.view.performance[st].percentage.num
                         <= 100 * r.loc.view.performance[st].percentage.den

\* ------------------------------------------------------------------ C29
\* The students registered under a tag a reader sent.
Tagged == {n \in 1..Len(student_docs) : student_docs[n].tag_id \in Tags}

\* C29: two different tags never resolve to the same display name, after any
\* sequence of requests by tag and by name.
C29_TagsResolveApart ==
    \A m, n \in Tagged :
        student_docs[m].tag_id # student_docs[n].tag_id
            => student_docs[m].name # student_docs[n].name

\* C29, the other half: a tag that has a name keeps it through every request.
C29_TagKeepsName ==
    [][\A n \in Tagged :
          /\ n \in 1..Len(student_docs')
          /\ student_docs'[n] = student_docs[n]
          /\ get_or_create_student(State, student_docs[n].tag_id).name
                = student_docs[n].name]_vars

====
